---- MODULE Spec2Model ----
(***************************************************************************)
(* Corporate Tax Analyzer: the /extract request handler (api.py) and the   *)
(* extraction utilities (extract.py), as a state machine.                  *)
(*                                                                         *)
(* Python strings are TLA+ strings; JSON values are tagged records.        *)
(* Python floats are modelled by exact integers: the overall figures are   *)
(* integer-valued, and tax amounts are counted in thousandths of a euro.   *)
(***************************************************************************)
EXTENDS Integers, Sequences, FiniteSets, TLC

VARIABLES
    pc,           \* position of the request in extract(): idle, ingest, call, await, done
    filename,     \* file.filename
    doc,          \* what the PDF / CSV library yields for the uploaded bytes
    full_text,    \* api.py local full_text
    tables_text,  \* api.py local tables_text
    modelCalls,   \* number of openai.ChatCompletion.create calls of this request
    reply,        \* outcome of the model call
    status,       \* HTTP status of the response (0: no response yet)
    detail,       \* detail of the HTTPException sent, "" otherwise
    result,       \* JSON payload returned with status 200
    fillPc,       \* fill_quarters_from_overall called on its own: "in" / "out"
    fillIn,       \* its argument
    fillOut,      \* its outcome
    taxPc,        \* calculate_netherlands_tax called on its own: "in" / "out"
    taxIn,        \* taxable income, euros
    taxOut        \* tax owed, thousandths of a euro

vars == <<pc, filename, doc, full_text, tables_text, modelCalls, reply, status,
          detail, result, fillPc, fillIn, fillOut, taxPc, taxIn, taxOut>>

requestVars == <<pc, filename, doc, full_text, tables_text, modelCalls, reply,
                 status, detail, result>>
fillVars == <<fillPc, fillIn, fillOut>>
taxVars == <<taxPc, taxIn, taxOut>>

(***************************************************************************)
(* Bounds of the model.                                                    *)
(***************************************************************************)
MaxPages == 2          \* pages of an uploaded PDF
MaxRows == 2           \* rows of an uploaded CSV
MaxIncomeSteps == 40   \* taxable incomes range over -40..40 steps of IncomeStep
IncomeStep == 10000

(***************************************************************************)
(* Python string operations.                                               *)
(***************************************************************************)
Uppers == "ABCDEFGHIJKLMNOPQRSTUVWXYZ"
Lowers == "abcdefghijklmnopqrstuvwxyz"

CharAt(s, i) == SubSeq(s, i, i)

LowerChar(c) ==
    IF \E i \in 1..Len(Uppers) : CharAt(Uppers, i) = c
    THEN CharAt(Lowers, CHOOSE i \in 1..Len(Uppers) : CharAt(Uppers, i) = c)
    ELSE c

RECURSIVE lower(_)
lower(s) == IF s = "" THEN "" ELSE LowerChar(CharAt(s, 1)) \o lower(SubSeq(s, 2, Len(s)))

endswith(s, suffix) ==
    /\ Len(s) >= Len(suffix)
    /\ SubSeq(s, Len(s) - Len(suffix) + 1, Len(s)) = suffix

startswith(s, prefix) ==
    /\ Len(s) >= Len(prefix)
    /\ SubSeq(s, 1, Len(prefix)) = prefix

\* kw in s
contains(s, kw) == \E i \in 1..(Len(s) - Len(kw) + 1) : SubSeq(s, i, i + Len(kw) - 1) = kw

\* sep.join(parts)
RECURSIVE join(_, _)
join(parts, sep) ==
    IF Len(parts) = 0 THEN ""
    ELSE IF Len(parts) = 1 THEN parts[1]
    ELSE parts[1] \o sep \o join(Tail(parts), sep)

Max(a, b) == IF a >= b THEN a ELSE b

\* all sequences over S of length lo..hi
SeqsUpTo(S, lo, hi) == UNION {[1..n -> S] : n \in lo..hi}

(***************************************************************************)
(* Exceptions and the handler's response.                                  *)
(***************************************************************************)
HTTPException(code, msg) == [type |-> "HTTPException", status |-> code, detail |-> msg]
Raised(type, msg) == [type |-> type, status |-> 0, detail |-> msg]

Return(v) == [kind |-> "return", value |-> v]
Raise(e) == [kind |-> "raise", exc |-> e]

NoResult == [t |-> "none"]
NoDoc == [kind |-> "none"]
NoReply == [kind |-> "none"]

UnsupportedFileType == "Unsupported file type. Please upload PDF or CSV"
NoReadableContent == "No readable content found in the file"

(***************************************************************************)
(* Document ingestion (api.py).                                            *)
(***************************************************************************)
\* Classify without lower(): the extension compared case-sensitively
ClassifyCaseSensitive(name) ==
    IF endswith(name, ".pdf") THEN "pdf"
    ELSE IF endswith(name, ".csv") THEN "csv"
    ELSE "unsupported"

\* the branch taken for file.filename
Classify(name) ==
    IF endswith(lower(name), ".pdf") THEN "pdf"
    ELSE IF endswith(lower(name), ".csv") THEN "csv"
    ELSE "unsupported"

\* DataFrame.to_string(index=False): a header line, then one line per row
to_string(headers, rows) ==
    join(<<join(headers, " ")>> \o [i \in 1..Len(rows) |-> join(rows[i], " ")], "\n")

\* the integer column labels pandas gives a frame built without columns
RECURSIVE RangeLabels(_)
RangeLabels(n) == IF n = 0 THEN <<>> ELSE Append(RangeLabels(n - 1), ToString(n - 1))

RECURSIVE Width(_)
Width(rows) == IF Len(rows) = 0 THEN 0 ELSE Max(Len(rows[1]), Width(Tail(rows)))

\* pd.DataFrame(rows, columns=headers) raises when a row's width is not the headers'
DataFrameRaises(headers, rows) == \E i \in 1..Len(rows) : Len(rows[i]) # Len(headers)

\* what one table of a PDF page adds to tables_text
TableText(t) ==
    IF Len(t) > 1
    THEN (IF DataFrameRaises(t[1], Tail(t))
          THEN to_string(RangeLabels(Width(t)), t)
          ELSE to_string(t[1], Tail(t))) \o "\n"
    ELSE ""

RECURSIVE TablesText(_)
TablesText(tables) ==
    IF Len(tables) = 0 THEN "" ELSE TableText(tables[1]) \o TablesText(Tail(tables))

PageText(page) == IF page.text # "" THEN page.text \o "\n" ELSE ""

RECURSIVE PdfFullText(_)
PdfFullText(pages) ==
    IF Len(pages) = 0 THEN "" ELSE PageText(pages[1]) \o PdfFullText(Tail(pages))

RECURSIVE PdfTablesText(_)
PdfTablesText(pages) ==
    IF Len(pages) = 0 THEN ""
    ELSE TablesText(pages[1].tables) \o PdfTablesText(Tail(pages))

Keywords == <<"revenue", "sales", "expenses", "depreciation", "deductions",
              "net income", "profit", "loss", "tax">>

NaN == "NaN"
NotNull(x) == x # NaN

\* " ".join([str(x) for x in row if pd.notnull(x)])
RowStr(row) == join(SelectSeq(row, NotNull), " ")

IsKeyRow(row) == \E k \in 1..Len(Keywords) : contains(lower(RowStr(row)), Keywords[k])

CsvFullText(rows) == join([i \in 1..Len(SelectSeq(rows, IsKeyRow)) |->
                              RowStr(SelectSeq(rows, IsKeyRow)[i])], "\n")

CsvTablesText(rows) ==
    IF Len(rows) = 0 THEN "Empty DataFrame\nColumns: []\nIndex: []"
    ELSE to_string(RangeLabels(Width(rows)), rows)

\* NoContent testing the blobs against None, which two strings never are
NoContentIsNone(ft, tt) == FALSE

\* if not full_text and not tables_text
NoContent(ft, tt) == ft = "" /\ tt = ""

\* ApiOuterHandler without its except HTTPException clause
ApiOuterHandlerWrapsAll(e) == HTTPException(500, "Internal server error: " \o e.detail)

\* except HTTPException as he: raise he / except Exception as e: ... 500
ApiOuterHandler(e) ==
    IF e.type = "HTTPException" THEN e
    ELSE HTTPException(500, "Internal server error: " \o e.detail)

\* the try block of the .pdf branch
IngestPdf(d) ==
    IF d.raises
    THEN Raise(HTTPException(400, "Error processing PDF: " \o d.error))
    ELSE Return(<<PdfFullText(d.pages), PdfTablesText(d.pages)>>)

\* the try block of the .csv branch
IngestCsv(d) ==
    IF d.raises
    THEN Raise(HTTPException(400, "Error processing CSV: " \o d.error))
    ELSE Return(<<CsvFullText(d.rows), CsvTablesText(d.rows)>>)

\* lines 55-105: classification, extraction, and the empty-content check
IngestOutcome(name, d) ==
    LET got == IF Classify(name) = "pdf" THEN IngestPdf(d)
               ELSE IF Classify(name) = "csv" THEN IngestCsv(d)
               ELSE Raise(HTTPException(400, UnsupportedFileType))
    IN  IF got.kind = "raise" THEN got
        ELSE IF NoContent(got.value[1], got.value[2])
        THEN Raise(HTTPException(400, NoReadableContent))
        ELSE got

(***************************************************************************)
(* Uploads.                                                                *)
(***************************************************************************)
FileNames == {"a.pdf", "a.PDF", "r.Pdf", "a.csv", "a.CSV", "b.cSv",
              "a.txt", "a.pdfx", "pdf", "csv.doc", ""}

PageTexts == {"", "Revenue 1000"}
OneRowTable == << <<"Item", "Amount">> >>
GoodTable == << <<"Item", "Amount">>, <<"Sales", "1000">> >>
RaggedTable == << <<"Item", "Amount">>, <<"Tax">> >>
PageTables == {<<>>, <<OneRowTable>>, <<GoodTable>>, <<RaggedTable>>}
Pages == [text : PageTexts, tables : PageTables]

PdfDocs ==
    {[kind |-> "pdf", raises |-> TRUE, error |-> "No /Root object", pages |-> <<>>]}
    \cup {[kind |-> "pdf", raises |-> FALSE, error |-> "", pages |-> p] :
             p \in SeqsUpTo(Pages, 0, MaxPages)}

CsvRows == {<<"Name", "Value">>, <<"Revenue", "1000">>, <<"Unrelated", "5">>,
            <<"NET INCOME", NaN>>, <<"Glossary", "5">>}

CsvDocs ==
    {[kind |-> "csv", raises |-> TRUE, error |-> "No columns to parse from file",
      rows |-> <<>>]}
    \cup {[kind |-> "csv", raises |-> FALSE, error |-> "", rows |-> r] :
             r \in SeqsUpTo(CsvRows, 1, MaxRows)}

\* what the library of the branch taken can yield for the uploaded bytes
DocsFor(name) ==
    IF Classify(name) = "pdf" THEN PdfDocs
    ELSE IF Classify(name) = "csv" THEN CsvDocs
    ELSE {NoDoc}

(***************************************************************************)
(* JSON values, as json.loads builds them.                                 *)
(***************************************************************************)
Str(s) == [t |-> "str", s |-> s]
Num(n) == [t |-> "num", n |-> n]
Null == [t |-> "null"]
Dict(f) == [t |-> "dict", d |-> f]
List(l) == [t |-> "list", l |-> l]
Absent == [t |-> "absent"]     \* marks a key the object does not have
EmptyDict == Dict([k \in {} |-> Null])

\* bool(v)
Truthy(v) ==
    CASE v.t = "null" -> FALSE
      [] v.t = "str" -> v.s # ""
      [] v.t = "num" -> v.n # 0
      [] v.t = "dict" -> DOMAIN v.d # {}
      [] v.t = "list" -> Len(v.l) > 0

\* d.get(k, default), d a dict
Get(d, k, default) == IF k \in DOMAIN d.d THEN d.d[k] ELSE default

\* d with d[k] = v
Put(d, k, v) == Dict([x \in DOMAIN d.d \cup {k} |-> IF x = k THEN v ELSE d.d[x]])

\* a or 0
OrZero(v) == IF Truthy(v) THEN v ELSE Num(0)

(***************************************************************************)
(* float(), for the literals the model draws: an optional sign and digits. *)
(***************************************************************************)
Digits == "0123456789"
IsDigit(c) == \E i \in 1..Len(Digits) : CharAt(Digits, i) = c
DigitValue(c) == (CHOOSE i \in 1..Len(Digits) : CharAt(Digits, i) = c) - 1

RECURSIVE ParseDigits(_)
ParseDigits(s) ==
    IF Len(s) = 0 THEN 0
    ELSE 10 * ParseDigits(SubSeq(s, 1, Len(s) - 1)) + DigitValue(CharAt(s, Len(s)))

AllDigits(s) == Len(s) > 0 /\ \A i \in 1..Len(s) : IsDigit(CharAt(s, i))

IsNumberLiteral(s) ==
    IF startswith(s, "-") THEN AllDigits(SubSeq(s, 2, Len(s))) ELSE AllDigits(s)

ParseNumber(s) ==
    IF startswith(s, "-") THEN 0 - ParseDigits(SubSeq(s, 2, Len(s))) ELSE ParseDigits(s)

\* float(v) raises ValueError / TypeError
FloatRaises(v) ==
    CASE v.t = "num" -> FALSE
      [] v.t = "str" -> ~IsNumberLiteral(v.s)
      [] OTHER -> TRUE

\* float(v), when it does not raise
Float(v) == IF v.t = "num" THEN v.n ELSE ParseNumber(v.s)

(***************************************************************************)
(* fill_quarters_from_overall (extract.py).                                *)
(***************************************************************************)
QuarterNames == <<"Q1", "Q2", "Q3", "Q4">>
QuarterFields == <<"revenue", "expenses", "depreciation", "deductions",
                   "net_taxable_income", "final_tax_owed">>
\* the overall key each quarter field is derived from
OverallKey(f) ==
    CASE f = "revenue" -> "total_revenue"
      [] f = "expenses" -> "total_expenses"
      [] OTHER -> f
Range(seq) == {seq[i] : i \in 1..Len(seq)}

\* v not in ("", "0", 0)
NotBlank(v) == v \notin {Str(""), Str("0"), Num(0)}

\* any(v not in ("", "0", 0) for v in q.values())
AnyValueNotBlank(q) == \E k \in DOMAIN q.d : NotBlank(q.d[k])

\* QuarterPopulated with all() for the inner any()
QuarterPopulatedAll(q) ==
    IF ~Truthy(q) THEN "no"
    ELSE IF q.t # "dict" THEN "raise"
    ELSE IF \A k \in DOMAIN q.d : NotBlank(q.d[k]) THEN "yes" ELSE "no"

\* q and any(...): "yes" / "no", or "raise" when q is truthy and has no .values()
QuarterPopulated(q) ==
    IF ~Truthy(q) THEN "no"
    ELSE IF q.t # "dict" THEN "raise"
    ELSE IF AnyValueNotBlank(q) THEN "yes" ELSE "no"

\* the order in which quarters.values() yields the entries: the order of the
\* keys in the model's JSON, here the schema's order, any further key last
ScanOrder == QuarterNames \o <<"FY">>

\* any(... for q in quarters.values()): stops at the first populated entry,
\* raises at an entry without .values()
RECURSIVE AnyQuarterPopulated(_, _)
AnyQuarterPopulated(quarters, i) ==
    IF i > Len(ScanOrder) THEN "no"
    ELSE IF ScanOrder[i] \notin DOMAIN quarters.d
    THEN AnyQuarterPopulated(quarters, i + 1)
    ELSE LET p == QuarterPopulated(quarters.d[ScanOrder[i]])
         IN  IF p = "no" THEN AnyQuarterPopulated(quarters, i + 1) ELSE p

\* the try / except around the six float() conversions: one failure zeroes them all
OverallNumber(data, f) ==
    IF \E g \in Range(QuarterFields) :
           FloatRaises(OrZero(Get(data, OverallKey(g), Num(0))))
    THEN 0
    ELSE Float(OrZero(Get(data, OverallKey(f), Num(0))))

\* str(int(x // 4)) if x else ""
QuarterShare(x) == IF x # 0 THEN Str(ToString(x \div 4)) ELSE Str("")

SynthesizedQuarter(data) ==
    Dict([f \in Range(QuarterFields) |-> QuarterShare(OverallNumber(data, f))])

\* quarters after the loop over Q1..Q4
FilledQuarters(data, quarters) ==
    Dict([q \in DOMAIN quarters.d \cup Range(QuarterNames) |->
            IF q \in Range(QuarterNames) THEN SynthesizedQuarter(data)
            ELSE quarters.d[q]])

fill_quarters_from_overall(data) ==
    IF data.t # "dict"
    THEN Raise(Raised("AttributeError", "object has no attribute 'get'"))
    ELSE LET quarters == Get(data, "quarters", EmptyDict)
         IN  IF quarters.t # "dict"
             THEN Raise(Raised("AttributeError", "object has no attribute 'values'"))
             ELSE LET any == AnyQuarterPopulated(quarters, 1)
                  IN  IF any = "raise"
                      THEN Raise(Raised("AttributeError",
                                        "object has no attribute 'values'"))
                      ELSE IF any = "yes" THEN Return(data)
                      ELSE Return(Put(data, "quarters", FilledQuarters(data, quarters)))

(***************************************************************************)
(* calculate_netherlands_tax (extract.py). Rates are per thousand, so the  *)
(* result is in thousandths of a euro and the arithmetic is exact.         *)
(***************************************************************************)
Threshold == 200000
LowRate == 190       \* 0.19
HighRate == 258      \* 0.258

\* calculate_netherlands_tax with the upper rate applied to the whole income
TaxFlatUpperRate(taxable_income) ==
    IF taxable_income <= 0 THEN 0
    ELSE IF taxable_income <= Threshold THEN taxable_income * LowRate
    ELSE taxable_income * HighRate

calculate_netherlands_tax(taxable_income) ==
    IF taxable_income <= 0 THEN 0
    ELSE IF taxable_income <= Threshold THEN taxable_income * LowRate
    ELSE Threshold * LowRate + (taxable_income - Threshold) * HighRate

Incomes == {k * IncomeStep : k \in (0 - MaxIncomeSteps)..MaxIncomeSteps}
           \cup {-500, -1, 0, 1, 199999, 200000, 200001, 300000}

(***************************************************************************)
(* extract_financial_data_with_ai (extract.py), from the model's reply on. *)
(***************************************************************************)
ModelFailures == {"AuthenticationError", "APIError", "RateLimitError", "Timeout"}
NotJson == [t |-> "text"]     \* a completion json.loads rejects

HandlerPrefix(type) ==
    CASE type = "AuthenticationError" -> "OpenAI API Authentication Error: "
      [] type = "APIError" -> "OpenAI API Error: "
      [] type = "RateLimitError" -> "OpenAI Rate Limit Error: "
      [] OTHER -> "Unexpected OpenAI Error: "

DefaultQuarter == Dict([f \in Range(QuarterFields) |-> Str("0")])

\* every numeric field "0", every text field "Not found"
DefaultSummary ==
    Dict([k \in {"company_name", "country", "quarters"}
                \cup {OverallKey(f) : f \in Range(QuarterFields)} |->
            CASE k \in {"company_name", "country"} -> Str("Not found")
              [] k = "quarters" -> Dict([q \in Range(QuarterNames) |-> DefaultQuarter])
              [] OTHER -> Str("0")])

\* OpenAIHandlers masking the failure with the default summary
OpenAIHandlersDefaulting(e) == Return(DefaultSummary)

\* the four except clauses of the inner try
OpenAIHandlers(e) == Raise(HTTPException(500, HandlerPrefix(e.type) \o e.detail))

\* the inner try block: the call's outcome, json.loads, the backfill
ExtractAttempt(r) ==
    IF r.kind # "completion" THEN Raise(Raised(r.kind, r.msg))
    ELSE IF r.body = NotJson THEN Raise(Raised("JSONDecodeError", "Expecting value"))
    ELSE fill_quarters_from_overall(r.body)

\* the outer except Exception, which also catches the inner HTTPException
ExtractOuterHandler(e) == Raise(HTTPException(500, "Error in AI extraction: " \o e.detail))

extract_financial_data_with_ai(r) ==
    LET attempt == ExtractAttempt(r)
        inner == IF attempt.kind = "raise" THEN OpenAIHandlers(attempt.exc) ELSE attempt
    IN  IF inner.kind = "raise" THEN ExtractOuterHandler(inner.exc) ELSE inner

\* api.py, the try around the extraction call
ApiExtractionHandler(e) ==
    IF e.type = "HTTPException" THEN e
    ELSE HTTPException(500, "Error in AI extraction: " \o e.detail)

\* PcAfterReply with the call made again after a failure
PcAfterReplyRetrying(out) == IF out.kind = "raise" THEN "call" ELSE "done"

\* where the request stands once the reply is handled: every path returns or raises
PcAfterReply(out) == "done"

(***************************************************************************)
(* Model replies.                                                          *)
(***************************************************************************)
Keep(f) == [k \in {x \in DOMAIN f : f[x] # Absent} |-> f[k]]

MkQuarters(q1, q2, q3, q4, fy) ==
    Dict(Keep([k \in Range(ScanOrder) |->
                 CASE k = "Q1" -> q1 [] k = "Q2" -> q2 [] k = "Q3" -> q3
                   [] k = "Q4" -> q4 [] OTHER -> fy]))

OverallKeys == {"company_name", "country"} \cup {OverallKey(f) : f \in Range(QuarterFields)}

MkData(rev, exp, rest, quarters) ==
    Dict(Keep([k \in OverallKeys \cup {"quarters"} |->
                 CASE k = "company_name" -> Str("Acme BV")
                   [] k = "country" -> Str("Netherlands")
                   [] k = "total_revenue" -> rev
                   [] k = "total_expenses" -> exp
                   [] k = "quarters" -> quarters
                   [] OTHER -> rest]))

BlankQuarter == Dict([f \in Range(QuarterFields) |-> Str("")])
ZeroQuarter == Dict([f \in Range(QuarterFields) |->
                       IF f = "revenue" THEN Num(0) ELSE Str("0")])
PartialQuarter == Dict([f \in Range(QuarterFields) |->
                          IF f = "revenue" THEN Str("500") ELSE Str("")])
FullQuarter == Dict([f \in Range(QuarterFields) |-> Str("250")])

QuarterValues == {Absent, Null, EmptyDict, BlankQuarter, ZeroQuarter, PartialQuarter,
                  Str("n/a")}
OverallValues == {Absent, Str("0"), Str("Not found"), Str("4000"), Str("4001"), Num(-5)}
RestValues == {Absent, Str("8")}

QuartersValues ==
    {Absent, Null}
    \cup {MkQuarters(q1, q2, q34, q34, fy) :
             q1 \in QuarterValues, q2 \in QuarterValues, q34 \in QuarterValues,
             fy \in {Absent, PartialQuarter}}

\* arguments of fill_quarters_from_overall
FillInputs ==
    {List(<<>>)}
    \cup {MkData(rev, exp, rest, qs) :
             rev \in OverallValues, exp \in OverallValues, rest \in RestValues,
             qs \in QuartersValues}

AllQuarters(q) == MkQuarters(q, q, q, q, Absent)

ReplyBodies ==
    {NotJson, List(<<>>), EmptyDict,
     MkData(Str("4000"), Str("2000"), Str("8"), AllQuarters(BlankQuarter)),
     MkData(Str("4001"), Str("Not found"), Str("8"), Absent),
     MkData(Str("0"), Str("0"), Str("0"), AllQuarters(ZeroQuarter)),
     MkData(Str("2000"), Str("1000"), Str("8"),
            MkQuarters(PartialQuarter, Absent, Absent, Absent, Absent)),
     MkData(Str("1000"), Str("1000"), Str("1000"), AllQuarters(FullQuarter)),
     MkData(Str("4000"), Str("2000"), Str("8"), Null)}

Replies ==
    {[kind |-> k, msg |-> "request failed", body |-> Null] : k \in ModelFailures}
    \cup {[kind |-> "completion", msg |-> "", body |-> b] : b \in ReplyBodies}

(***************************************************************************)
(* The request: POST /extract.                                             *)
(***************************************************************************)
Init ==
    /\ pc = "idle"
    /\ filename = ""
    /\ doc = NoDoc
    /\ full_text = ""
    /\ tables_text = ""
    /\ modelCalls = 0
    /\ reply = NoReply
    /\ status = 0
    /\ detail = ""
    /\ result = NoResult
    /\ fillPc = "idle" /\ fillIn = NoResult /\ fillOut = NoResult
    /\ taxPc = "idle" /\ taxIn = 0 /\ taxOut = 0

\* the upload arrives
Receive(name) ==
    /\ pc = "idle"
    /\ filename' = name
    /\ pc' = "ingest"
    /\ UNCHANGED <<doc, full_text, tables_text, modelCalls, reply, status, detail,
                   result, fillVars, taxVars>>

\* api.py lines 51-105, to the point where the extraction is called
Ingest(d) ==
    /\ pc = "ingest"
    /\ d \in DocsFor(filename)
    /\ doc' = d
    /\ LET out == IngestOutcome(filename, d)
       IN  IF out.kind = "raise"
           THEN /\ status' = ApiOuterHandler(out.exc).status
                /\ detail' = ApiOuterHandler(out.exc).detail
                /\ pc' = "done"
                /\ UNCHANGED <<full_text, tables_text>>
           ELSE /\ full_text' = out.value[1]
                /\ tables_text' = out.value[2]
                /\ pc' = "call"
                /\ UNCHANGED <<status, detail>>
    /\ UNCHANGED <<filename, modelCalls, reply, result, fillVars, taxVars>>

\* openai.ChatCompletion.create is called
CallModel ==
    /\ pc = "call"
    /\ modelCalls' = modelCalls + 1
    /\ pc' = "await"
    /\ UNCHANGED <<filename, doc, full_text, tables_text, reply, status, detail,
                   result, fillVars, taxVars>>

\* the call returns or raises; the rest of both functions runs
ModelReplies(r) ==
    /\ pc = "await"
    /\ reply' = r
    /\ LET out == extract_financial_data_with_ai(r)
       IN  /\ IF out.kind = "raise"
              THEN /\ status' = ApiOuterHandler(ApiExtractionHandler(out.exc)).status
                   /\ detail' = ApiOuterHandler(ApiExtractionHandler(out.exc)).detail
                   /\ UNCHANGED result
              ELSE /\ status' = 200
                   /\ result' = out.value
                   /\ UNCHANGED detail
           /\ pc' = PcAfterReply(out)
    /\ UNCHANGED <<filename, doc, full_text, tables_text, modelCalls, fillVars, taxVars>>

Next ==
    \/ \E name \in FileNames : Receive(name)
    \/ \E d \in PdfDocs \cup CsvDocs \cup {NoDoc} : Ingest(d)
    \/ CallModel
    \/ \E r \in Replies : ModelReplies(r)

Spec == Init /\ [][Next]_vars

(***************************************************************************)
(* fill_quarters_from_overall on its own.                                  *)
(***************************************************************************)
InitFill ==
    /\ pc = "idle" /\ filename = "" /\ doc = NoDoc /\ full_text = ""
    /\ tables_text = "" /\ modelCalls = 0 /\ reply = NoReply /\ status = 0
    /\ detail = "" /\ result = NoResult
    /\ fillPc = "in" /\ fillIn \in FillInputs /\ fillOut = NoResult
    /\ taxPc = "idle" /\ taxIn = 0 /\ taxOut = 0

FillCall ==
    /\ fillPc = "in"
    /\ fillOut' = fill_quarters_from_overall(fillIn)
    /\ fillPc' = "out"
    /\ UNCHANGED <<fillIn, requestVars, taxVars>>

NextFill == FillCall

SpecFill == InitFill /\ [][NextFill]_vars

(***************************************************************************)
(* calculate_netherlands_tax on its own.                                   *)
(***************************************************************************)
InitTax ==
    /\ pc = "idle" /\ filename = "" /\ doc = NoDoc /\ full_text = ""
    /\ tables_text = "" /\ modelCalls = 0 /\ reply = NoReply /\ status = 0
    /\ detail = "" /\ result = NoResult
    /\ fillPc = "idle" /\ fillIn = NoResult /\ fillOut = NoResult
    /\ taxPc = "in" /\ taxIn \in Incomes /\ taxOut = 0

TaxCall ==
    /\ taxPc = "in"
    /\ taxOut' = calculate_netherlands_tax(taxIn)
    /\ taxPc' = "out"
    /\ UNCHANGED <<taxIn, requestVars, fillVars>>

NextTax == TaxCall

SpecTax == InitTax /\ [][NextTax]_vars

(***************************************************************************)
(* Properties.                                                             *)
(***************************************************************************)
Responded == pc = "done"
Returned == pc = "done" /\ status = 200

\* the model call failed, or its completion is not JSON
ModelFailed(r) == r.kind \in ModelFailures \/ (r.kind = "completion" /\ r.body = NotJson)

\* a field value that is neither empty nor zero
HasValue(v) == v # Str("") /\ v # Str("0") /\ v # Num(0)

IsDict(v) == v.t = "dict"
QuartersOf(data) == IF IsDict(data) THEN Get(data, "quarters", EmptyDict) ELSE EmptyDict
QuarterOf(data, q) ==
    IF IsDict(QuartersOf(data)) THEN Get(QuartersOf(data), q, EmptyDict) ELSE EmptyDict
FieldOf(data, q, f) ==
    IF IsDict(QuarterOf(data, q)) THEN Get(QuarterOf(data, q), f, Absent) ELSE Absent

\* all of Q1..Q4 present, each of the six fields present and non-empty
SummaryPopulated(data) ==
    \A q \in Range(QuarterNames) : \A f \in Range(QuarterFields) :
        FieldOf(data, q, f) \notin {Absent, Null, Str("")}

\* one of Q1..Q4 has a field that is neither empty nor zero
SomeQuarterHasValue(data) ==
    \E q \in Range(QuarterNames) : \E f \in Range(QuarterFields) :
        FieldOf(data, q, f) # Absent /\ HasValue(FieldOf(data, q, f))

\* C1: every summary returned by the extract operation has Q1, Q2, Q3 and Q4
\* present and every one of the six fields of every quarter non-empty.
C1_ReturnedSummaryPopulated == Returned => SummaryPopulated(result)

\* C2 (as claimed): whenever the model call fails or its response is not JSON,
\* the request returns the default summary ("0" / "Not found" in every field).
C2_FailureReturnsDefault ==
    (Responded /\ reply # NoReply /\ ModelFailed(reply))
        => (status = 200 /\ result = DefaultSummary)

\* C2 (amended): whenever the model call fails or its response is not JSON, the
\* request ends with a status-500 error whose detail wraps the failure, and no
\* summary, default or partial, is returned for it.
C2_FailureIs500 ==
    (Responded /\ reply # NoReply /\ ModelFailed(reply))
        => /\ status = 500
           /\ result = NoResult
           /\ startswith(detail, "Error in AI extraction: ")

C2_Witness ==
    /\ Responded /\ reply # NoReply /\ reply.kind = "completion" /\ reply.body = NotJson
    /\ status = 500

\* C3: when at least one quarter has a field that is neither empty nor zero,
\* fill_quarters_from_overall returns its input unchanged: every quarter, the
\* empty and missing ones included, and every overall field.
C3_PartialQuartersUntouched ==
    (fillPc = "out" /\ fillOut.kind = "return" /\ SomeQuarterHasValue(fillIn))
        => fillOut.value = fillIn

C3_Witness ==
    /\ fillPc = "out" /\ fillOut.kind = "return" /\ SomeQuarterHasValue(fillIn)
    /\ FieldOf(fillIn, "Q1", "revenue") = Str("500")
    /\ "Q2" \notin DOMAIN QuartersOf(fillIn).d
    /\ QuarterOf(fillIn, "Q3") = BlankQuarter

\* the overall field behind f, taken as zero on its own when missing or unparseable
OwnNumber(data, f) ==
    LET v == OrZero(Get(data, OverallKey(f), Num(0)))
    IN  IF FloatRaises(v) THEN 0 ELSE Float(v)

\* C4: when no quarter holds a non-empty / non-zero value, every field of Q1..Q4
\* is the decimal string of floor(overall field / 4), each missing or unparseable
\* overall field taken as zero on its own.
C4_BackfillIsFloorOfOwnField ==
    (fillPc = "out" /\ fillOut.kind = "return" /\ IsDict(fillIn)
       /\ ~SomeQuarterHasValue(fillIn))
        => \A q \in Range(QuarterNames) : \A f \in Range(QuarterFields) :
               FieldOf(fillOut.value, q, f) = Str(ToString(OwnNumber(fillIn, f) \div 4))

\* a CSV of one row that has none of the keywords
HeaderOnlyCsv(d) ==
    /\ d.kind = "csv" /\ ~d.raises
    /\ Len(d.rows) = 1
    /\ \A k \in 1..Len(Keywords) : ~contains(lower(RowStr(d.rows[1])), Keywords[k])

\* C5: a CSV with only a header row and no keyword row ends the request with
\* NoReadableContent (400), and the model is never called in that request.
C5_HeaderOnlyCsvRejected ==
    HeaderOnlyCsv(doc)
        => /\ modelCalls = 0
           /\ Responded => (status = 400 /\ detail = NoReadableContent)

BothBlobsEmpty == full_text = "" /\ tables_text = ""

\* C6: the model is invoked only if one of the two ingested text blobs is
\* non-empty; when both are empty after ingestion the request fails with
\* NoReadableContent and no model call is made.
C6_ModelOnlyOnContent ==
    /\ (pc \in {"call", "await"} \/ modelCalls > 0) => ~BothBlobsEmpty
    /\ (Responded /\ doc.kind # "none" /\ ~doc.raises /\ BothBlobsEmpty)
           => (status = 400 /\ detail = NoReadableContent /\ modelCalls = 0
               /\ reply = NoReply)

C6_Witness ==
    /\ Responded /\ doc.kind = "pdf" /\ ~doc.raises /\ Len(doc.pages) = MaxPages
    /\ BothBlobsEmpty /\ detail = NoReadableContent /\ modelCalls = 0

Ingested == pc \in {"call", "await", "done"}

\* C7: a filename that does not end in .pdf or .csv, compared case-insensitively,
\* fails with UnsupportedFileType (400) with no ingestion and no model call; a
\* filename ending in .pdf or .csv in any letter case is taken as PDF or CSV.
C7_UnsupportedRejectedFirst ==
    Ingested =>
        /\ (~endswith(lower(filename), ".pdf") /\ ~endswith(lower(filename), ".csv"))
               => (pc = "done" /\ status = 400 /\ detail = UnsupportedFileType
                   /\ doc = NoDoc /\ modelCalls = 0 /\ reply = NoReply)
        /\ filename \in {"a.txt", "a.pdfx", "pdf", "csv.doc", ""}
               => detail = UnsupportedFileType
        /\ filename \in {"a.pdf", "a.PDF", "r.Pdf"}
               => (doc.kind = "pdf" /\ detail # UnsupportedFileType)
        /\ filename \in {"a.csv", "a.CSV", "b.cSv"}
               => (doc.kind = "csv" /\ detail # UnsupportedFileType)

C7_Witness ==
    /\ Responded /\ filename = "a.txt" /\ status = 400 /\ detail = UnsupportedFileType
    /\ modelCalls = 0

\* C8: a request makes at most one model call; after a failed call no second
\* call is made, and the request ends with a failure response.
C8_AtMostOneCall ==
    /\ modelCalls <= 1
    /\ (reply # NoReply /\ reply.kind \in ModelFailures)
           => (pc = "done" /\ modelCalls = 1 /\ status = 500 /\ result = NoResult)

C8_Witness ==
    /\ Responded /\ reply # NoReply /\ reply.kind = "RateLimitError" /\ modelCalls = 1
    /\ status = 500

\* C9: a failed request carries the status of the layer that failed: unsupported
\* type, no readable content and a raising PDF / CSV library give 400; every
\* failure of the model layer gives 500.
C9_StatusOfFailingLayer ==
    Responded =>
        /\ status \in {200, 400, 500}
        /\ filename \in {"a.txt", "a.pdfx", "pdf", "csv.doc", ""} => status = 400
        /\ (doc.kind # "none" /\ doc.raises) => status = 400
        /\ (doc.kind # "none" /\ ~doc.raises /\ BothBlobsEmpty) => status = 400
        /\ status = 400 => modelCalls = 0
        /\ (reply # NoReply /\ ModelFailed(reply)) => status = 500
        /\ (reply # NoReply /\ reply.kind = "completion" /\ reply.body # NotJson
              /\ (~IsDict(reply.body) \/ ~IsDict(QuartersOf(reply.body))))
               => status = 500
        /\ status = 500 => modelCalls = 1

C9_Witness ==
    /\ Responded /\ doc.kind = "csv" /\ doc.raises /\ status = 400
    /\ startswith(detail, "Error processing CSV: ")

\* C10: calculate_netherlands_tax is 0 for income <= 0, 19% of the income up to
\* 200000, and 19% of 200000 plus 25.8% of the excess above it; tax(0) = 0,
\* tax(-500) = 0, tax(200000) = 38000, tax(300000) = 63800, and both brackets
\* agree at 200000.  Amounts are in thousandths of a euro (19% of x is 190 x).
C10_TwoBracketTax ==
    taxPc = "out" =>
        /\ taxIn <= 0 => taxOut = 0
        /\ (0 < taxIn /\ taxIn <= 200000) => taxOut = (19 * taxIn) * 10
        /\ taxIn > 200000 => taxOut = 38000 * 1000 + 258 * (taxIn - 200000)
        /\ taxIn = 0 => taxOut = 0
        /\ taxIn = -500 => taxOut = 0
        /\ taxIn = 200000 => /\ taxOut = 38000 * 1000
                             /\ taxOut = 38000 * 1000 + 258 * (taxIn - 200000)
        /\ taxIn = 300000 => taxOut = 63800 * 1000

C10_Witness == taxPc = "out" /\ taxIn = 300000 /\ taxOut = 63800 * 1000

====
